---- MODULE Spec2Model ----
(***************************************************************************)
(* Model of the CPU compute backend of magnetron (magnetron_cpu.c): the     *)
(* device life cycle, the barrier-synchronised intra-op thread pool, the   *)
(* dynamic work scaling heuristic and eager forward execution.             *)
(*                                                                         *)
(* Thread 0 is the calling (main) thread, which doubles as worker 0;       *)
(* threads 1..N-1 are the async workers of the pool.                       *)
(***************************************************************************)
EXTENDS Integers, Sequences, FiniteSets, Bags, TLC

(***************************************************************************)
(* Bounds of the model.                                                    *)
(***************************************************************************)
MaxCalls == 2        \* exec_fwd calls issued per device life time
MaxInits == 2        \* device initialisations
MaxSize == 3         \* bytes of the largest storage buffer
PtrBits == 5         \* bits of uintptr_t and size_t (scaled down from 64)

(* Inputs the environment may choose. *)
DeviceConfigs == {<<0, 0>>, <<0, 2>>, <<1, 3>>, <<3, 0>>}
                                      \* <<desc->thread_count, ctx->sys.cpu_virtual_cores>>
ExecNumels   == {249999, 250000, 250011, 251025}   \* node->numel of executed nodes
ScenarioConfigs == {<<4, 3>>, <<1, 3>>}   \* the 4-thread device (and a single-threaded one)
ScenarioNumels  == {250000, 100}          \* 500x500 and 10x10 results
DuoCallers == {0, 9}                      \* worker 0 and a second thread calling exec_fwd
DuoConfigs == {<<2, 0>>, <<1, 0>>}
DuoNumels  == {250011, 249999}            \* width 2, and a call run inline
HeurNumels   == {0, 1, 100, 249999, 250000, 250001, 250010, 250011, 250101,
                 250102, 251024, 251025, 260321, 260322, 354031, 354032,
                 1000000, 1298576, 1298577, 10000000, 2147483647}
HeurWorkers  == {0, 2, 3, 4, 5, 6, 7, 8}   \* 0: device without a pool

(* The hosts a device may be initialised on: the build target and the set
   ctx->cpu_features of detected x86-64 features (none on other targets). *)
GateFeatures == {"AVX512F", "AVX2", "AVX", "SSE41"}
GateHosts ==
    {[x86_64 |-> TRUE, cpu_features |-> f] : f \in SUBSET GateFeatures}
        \cup {[x86_64 |-> FALSE, cpu_features |-> {}]}
DefaultHosts == {[x86_64 |-> TRUE, cpu_features |-> {"SSE41", "AVX"}]}

(* What spec->get_feature_permutation(&num_features) may yield for one
   specialization: a list of features (num_features = its length), or NULL. *)
FeatureList(fs) == [features |-> fs, null |-> FALSE]
NullList == [features |-> << >>, null |-> TRUE]

PermSingle ==
    [avx512f |-> FeatureList(<<"AVX512F">>), avx2 |-> FeatureList(<<"AVX2">>),
     avx |-> FeatureList(<<"AVX">>), sse41 |-> FeatureList(<<"SSE41">>)]
PermCumulative ==
    [avx512f |-> FeatureList(<<"SSE41", "AVX", "AVX2", "AVX512F">>),
     avx2 |-> FeatureList(<<"SSE41", "AVX", "AVX2">>),
     avx |-> FeatureList(<<"SSE41", "AVX">>),
     sse41 |-> FeatureList(<<"SSE41">>)]

(* The tables of required features the specializations may declare. *)
GatePerms ==
    {PermSingle, PermCumulative,
     [PermSingle EXCEPT !.avx512f = FeatureList(<< >>)],
     [PermSingle EXCEPT !.avx512f = NullList, !.avx2 = FeatureList(<< >>)],
     [PermCumulative EXCEPT !.avx2 = NullList],
     [PermCumulative EXCEPT !.avx = FeatureList(<< >>), !.sse41 = NullList],
     [PermCumulative EXCEPT !.sse41 = FeatureList(<<"AVX", "SSE41">>)],
     [avx512f |-> NullList, avx2 |-> FeatureList(<< >>),
      avx |-> NullList, sse41 |-> FeatureList(<< >>)]}
DefaultPerms == {PermCumulative}

(***************************************************************************)
(* Program constants.                                                      *)
(***************************************************************************)
NumelThreshold == 250000     \* .numel_threshold
GrowthNum == 3               \* .growth_scale = 0.3 = GrowthNum / GrowthDen
GrowthDen == 10
NULL == 0                    \* payload->node = NULL
NoThread == -1               \* mutex not held
MainThread == {0}              \* the thread that submits work (worker 0)

XMax(a, b) == IF a > b THEN a ELSE b
XMin(a, b) == IF a < b THEN a ELSE b

(***************************************************************************)
(* ceil(growth_scale * log2(m)) for m >= 1, computed exactly:              *)
(*   ceil((p/q) * log2 m) is the least w with m^p <= (2^q)^w.              *)
(* m^p does not fit a machine integer, so it is computed on little-endian  *)
(* digit sequences in base 2^q; the answer is then read off the number of  *)
(* digits.                                                                 *)
(***************************************************************************)
RECURSIVE Pow(_, _)
Pow(b, e) == IF e = 0 THEN 1 ELSE b * Pow(b, e - 1)

LimbBase == Pow(2, GrowthDen)

RECURSIVE Limbs(_)
Limbs(n) == IF n = 0 THEN << >> ELSE <<n % LimbBase>> \o Limbs(n \div LimbBase)

RECURSIVE ScaleLimbs(_, _, _)
ScaleLimbs(a, d, c) ==
    IF a = << >> THEN Limbs(c)
    ELSE LET v == Head(a) * d + c
         IN  <<v % LimbBase>> \o ScaleLimbs(Tail(a), d, v \div LimbBase)

RECURSIVE AddLimbs(_, _, _)
AddLimbs(a, b, c) ==
    IF a = << >> /\ b = << >> THEN Limbs(c)
    ELSE LET x == IF a = << >> THEN 0 ELSE Head(a)
             y == IF b = << >> THEN 0 ELSE Head(b)
             v == x + y + c
         IN  <<v % LimbBase>> \o
             AddLimbs(IF a = << >> THEN a ELSE Tail(a),
                      IF b = << >> THEN b ELSE Tail(b), v \div LimbBase)

RECURSIVE TrimLimbs(_)
TrimLimbs(a) ==
    IF a # << >> /\ a[Len(a)] = 0 THEN TrimLimbs(SubSeq(a, 1, Len(a) - 1)) ELSE a

RECURSIVE MulLimbs(_, _)
MulLimbs(a, b) ==
    IF b = << >> THEN << >>
    ELSE LET hi == MulLimbs(a, Tail(b))
         IN  TrimLimbs(AddLimbs(ScaleLimbs(a, Head(b), 0),
                                IF hi = << >> THEN hi ELSE <<0>> \o hi, 0))

RECURSIVE PowLimbs(_, _)
PowLimbs(a, e) == IF e = 0 THEN <<1>> ELSE MulLimbs(a, PowLimbs(a, e - 1))

IsLimbPower(a) ==   \* a = LimbBase^(Len(a)-1)
    /\ a # << >>
    /\ a[Len(a)] = 1
    /\ \A i \in 1..(Len(a) - 1) : a[i] = 0

CeilGrowthLog2(m) ==
    LET p == PowLimbs(Limbs(m), GrowthNum)
    IN  IF IsLimbPower(p) THEN Len(p) - 1 ELSE Len(p)

(***************************************************************************)
(* (uint32_t)ceil(growth_scale * log2(m)).  For m = 0 log2 yields -inf and *)
(* converting a non-finite double to an unsigned integer is undefined: the *)
(* observed results are 0 (cvttsd2si / fcvtzu) or the largest value of the *)
(* type (vcvttsd2usi); the latter is represented by 2^31-1, which is       *)
(* clamped like it.                                                        *)
(***************************************************************************)
UndefinedCastResults == {0, 2147483647}

CastWorkers(m) == IF m = 0 THEN UndefinedCastResults ELSE {CeilGrowthLog2(m)}

(* mag_cpu_dynamic_work_scaling: the set of values the call may return. *)
DynamicWorkScaling(d, numel) ==
    IF ~d.pool \/ numel < NumelThreshold THEN {1}
    ELSE {XMin(d.num_allocated_workers, XMax(1, w)) :
            w \in CastWorkers(numel - NumelThreshold)}

(***************************************************************************)
(* The specialization gate.  The kernel registry records the installers    *)
(* that were called on it, in order, and what the selection returned.      *)
(***************************************************************************)
Specializations == <<"avx512f", "avx2", "avx", "sse41">>   \* best to worst

NoKernels == [installed |-> << >>, specialized |-> FALSE]  \* .kernels = {}

(* As HasAllFeatures, but satisfied by one present feature. *)
HasAnyFeature(cpu_features, req) ==
    \E j \in 1..Len(req.features) : req.features[j] \in cpu_features

(* has_all_features of the inner loop: mag_ctx_x86_64_cpu_has_feature for
   each requested feature. *)
HasAllFeatures(cpu_features, req) ==
    \A j \in 1..Len(req.features) : req.features[j] \in cpu_features

(* mag_amd64_blas_detect_optimal_specialization, from iteration i on. *)
RECURSIVE Amd64DetectOptimalSpecialization(_, _, _, _)
Amd64DetectOptimalSpecialization(cpu_features, perm, kernels, i) ==
    IF i > Len(Specializations)
    THEN [installed |-> Append(kernels.installed, "fallback"), specialized |-> FALSE]
    ELSE LET spec == Specializations[i]
             req == perm[spec]
         IN  IF Len(req.features) = 0 \/ req.null        \* continue
             THEN Amd64DetectOptimalSpecialization(cpu_features, perm, kernels, i + 1)
             ELSE IF HasAllFeatures(cpu_features, req)
             THEN [installed |-> Append(kernels.installed, spec), specialized |-> TRUE]
             ELSE Amd64DetectOptimalSpecialization(cpu_features, perm, kernels, i + 1)

(* mag_blas_detect_optimal_specialization *)
DetectOptimalSpecialization(host, perm, kernels) ==
    IF host.x86_64
    THEN Amd64DetectOptimalSpecialization(host.cpu_features, perm, kernels, 1)
    ELSE [installed |-> Append(kernels.installed, "fallback"), specialized |-> FALSE]

(***************************************************************************)
(* State.                                                                  *)
(***************************************************************************)
VARIABLES
    ctx,       \* desc->thread_count, ctx->sys.cpu_virtual_cores, the host and the
               \* feature lists of the specializations, as of the last init
    dvc,       \* mag_cpu_device_t: alive, pool (non-NULL), num_allocated_workers,
               \* kernels
    pool,      \* mag_threadpool_t: interrupt, phase, num_completed, ...
    workers,   \* pool->workers: index -> [phase, payload, is_async]
    mtx,       \* pool->mtx: the thread holding it, or NoThread
    cv,        \* pool->cv: the threads blocked in mag_cv_wait
    pc,        \* position of every thread
    loc,       \* locals of the calling thread(s)
    issued,    \* the exec_fwd calls issued on this device: <<[numel, width, caller]>>
    kcalls,    \* bag of payloads the kernel was invoked with during the current call
    inits,     \* number of device initialisations so far
    env,       \* the inputs the environment chooses from:
               \* [configs, numels, hosts, perms], and the threads that call
               \* into the device: callers
    heur,      \* inputs and results of the work scaling heuristic (HeurSpec)
    sto,       \* mag_storage_buffer_t: the descriptor of the storage buffer
    mem,       \* the bytes of the block sto.base points to
    stoop      \* the last storage operation: its arguments and its outcome

vars == <<ctx, dvc, pool, workers, mtx, cv, pc, loc, issued, kcalls, inits, env, heur,
          sto, mem, stoop>>

Callers == env.callers       \* the threads that submit work

NoPool == [interrupt |-> FALSE, phase |-> 0, num_completed |-> 0,
           num_allocated_workers |-> 0, num_active_workers |-> 0,
           num_workers_online |-> 0]

NoPayload == [node |-> NULL, thread_idx |-> 0, thread_num |-> 0]

NoDevice == [alive |-> FALSE, pool |-> FALSE, num_allocated_workers |-> 0,
             kernels |-> NoKernels]

NoCtx == [thread_count |-> 0, cpu_virtual_cores |-> 0,
          host |-> [x86_64 |-> FALSE, cpu_features |-> {}],
          feature_permutation |-> PermSingle]

NoLocals == [node |-> NULL, k |-> 0, i |-> 0, payload |-> NoPayload]

NoHeur == [a |-> 0, b |-> 0, ra |-> 0, rb |-> 0, done |-> FALSE]

(* memset(buf, 0, sizeof buf): the descriptor of no buffer. *)
NoBuffer == [base |-> 0, size |-> 0, alignment |-> 0, host |-> "null",
             set |-> "null", cpy_host_device |-> "null", cpy_device_host |-> "null"]

NoOp == [op |-> "none", offs |-> 0, n |-> 0, x |-> 0, src |-> << >>, dst |-> << >>,
         outcome |-> "ok"]

Boot ==
    /\ ctx = NoCtx
    /\ dvc = NoDevice
    /\ pool = NoPool
    /\ workers = << >>
    /\ mtx = NoThread
    /\ cv = {}
    /\ pc = [t \in Callers |-> "none"]
    /\ loc = [c \in Callers |-> NoLocals]
    /\ issued = << >>
    /\ kcalls = EmptyBag
    /\ inits = 0
    /\ heur = NoHeur
    /\ sto = NoBuffer
    /\ mem = << >>
    /\ stoop = NoOp

Init ==
    /\ env = [configs |-> DeviceConfigs, numels |-> ExecNumels,
              hosts |-> DefaultHosts, perms |-> DefaultPerms, callers |-> MainThread]
    /\ Boot

ScenarioInit ==
    /\ env = [configs |-> ScenarioConfigs, numels |-> ScenarioNumels,
              hosts |-> DefaultHosts, perms |-> DefaultPerms, callers |-> MainThread]
    /\ Boot

(* Two threads calling exec_fwd on the device of two workers. *)
DuoInit ==
    /\ env = [configs |-> DuoConfigs, numels |-> DuoNumels,
              hosts |-> DefaultHosts, perms |-> DefaultPerms, callers |-> DuoCallers]
    /\ Boot

N == pool.num_allocated_workers

(* The payload a thread works on: worker i its own, a caller that of worker 0. *)
PayloadIdx(t) == IF t \in Callers THEN 0 ELSE t

(* mag_mutex_lock / mag_mutex_unlock / mag_cv_broadcast *)
CanLock == mtx = NoThread

(***************************************************************************)
(* Device initialisation and pool creation.                                *)
(***************************************************************************)

(* As ResolveThreads, but taking the larger of the request and the cores. *)
ResolveThreadsMax(thread_count, cores) == XMax(thread_count, XMax(1, cores))

(* mag_init_device_cpu: the resolved number of threads. *)
ResolveThreads(thread_count, cores) ==
    LET hw_concurrency == XMax(1, cores)
    IN  IF thread_count # 0 THEN thread_count ELSE hw_concurrency

(* mag_cpu_init_device: a pool is created for more than one thread. *)
NeedsPool(num_threads) == num_threads > 1

(* mag_init_device_cpu .. mag_cpu_init_device, up to the allocation of the
   pool and of the zeroed worker array in mag_threadpool_create. *)
InitDevice(c, thread_count, cores, host, perm) ==
    /\ pc[c] = "none"
    /\ ~dvc.alive
    /\ inits < MaxInits
    /\ inits' = inits + 1
    /\ ctx' = [thread_count |-> thread_count, cpu_virtual_cores |-> cores,
               host |-> host, feature_permutation |-> perm]
    /\ dvc' = [alive |-> TRUE, pool |-> FALSE, num_allocated_workers |-> 0,
               kernels |-> DetectOptimalSpecialization(host, perm, NoKernels)]
    /\ issued' = << >>
    /\ kcalls' = EmptyBag
    /\ LET num_threads == ResolveThreads(thread_count, cores)
       IN  IF NeedsPool(num_threads)
           THEN /\ pool' = [interrupt |-> FALSE, phase |-> 0, num_completed |-> 0,
                            num_allocated_workers |-> num_threads,
                            num_active_workers |-> num_threads,
                            num_workers_online |-> 0]
                /\ workers' = [i \in 0..(num_threads - 1) |->
                                 [phase |-> 0, payload |-> NoPayload, is_async |-> FALSE]]
                /\ pc' = [t \in (0..(num_threads - 1)) \cup Callers |->
                            IF t = c THEN "create_workers" ELSE "none"]
                /\ loc' = [loc EXCEPT ![c].i = 0]
           ELSE /\ pc' = [t \in Callers |-> "idle"]
                /\ UNCHANGED <<pool, workers, loc>>
    /\ UNCHANGED <<mtx, cv, env, heur, sto, mem, stoop>>

(* mag_threadpool_create: one iteration of the worker initialisation loop. *)
CreateWorker(c) ==
    /\ pc[c] = "create_workers"
    /\ LET ti == loc[c].i
       IN  IF ti < N
           THEN /\ workers' = [workers EXCEPT ![ti] =
                     [phase |-> 0,
                      payload |-> [node |-> NULL, thread_idx |-> ti, thread_num |-> N],
                      is_async |-> (ti # 0)]]
                /\ pc' = IF ti # 0 THEN [pc EXCEPT ![ti] = "start"] ELSE pc
                /\ loc' = [loc EXCEPT ![c].i = ti + 1]
           ELSE /\ pc' = [pc EXCEPT ![c] = "create_spin"]
                /\ UNCHANGED <<workers, loc>>
    /\ UNCHANGED <<ctx, dvc, pool, mtx, cv, issued, kcalls, inits, env, heur,
                   sto, mem, stoop>>

(* mag_threadpool_create: wait for all workers to come online, then return
   to mag_cpu_init_device, which stores the pool in the device; the device
   is handed to the callers. *)
CreateSpin(c) ==
    /\ pc[c] = "create_spin"
    /\ pool.num_workers_online = N - 1
    /\ dvc' = [dvc EXCEPT !.pool = TRUE, !.num_allocated_workers = N]
    /\ pc' = [t \in DOMAIN pc |-> IF t \in Callers THEN "idle" ELSE pc[t]]
    /\ loc' = [loc EXCEPT ![c] = NoLocals]
    /\ UNCHANGED <<ctx, pool, workers, mtx, cv, issued, kcalls, inits, env, heur,
                   sto, mem, stoop>>

(***************************************************************************)
(* Worker threads.                                                         *)
(***************************************************************************)

(* mag_worker_thread_exec_op: come online. *)
WorkerStart(t) ==
    /\ pc[t] = "start"
    /\ pool' = [pool EXCEPT !.num_workers_online = @ + 1]
    /\ pc' = [pc EXCEPT ![t] = "await_lock"]
    /\ UNCHANGED <<ctx, dvc, workers, mtx, cv, loc, issued, kcalls, inits, env, heur,
                   sto, mem, stoop>>

(* As HasWork, but with an inclusive comparison of the phases. *)
HasWorkInclusive(t) == pool.interrupt \/ pool.phase >= workers[t].phase

(* mag_worker_await_work: the wait predicate. *)
HasWork(t) == pool.interrupt \/ pool.phase > workers[t].phase

(* mag_worker_await_work: mag_mutex_lock. *)
AwaitLock(t) ==
    /\ pc[t] = "await_lock"
    /\ CanLock
    /\ mtx' = t
    /\ pc' = [pc EXCEPT ![t] = "await_check"]
    /\ UNCHANGED <<ctx, dvc, pool, workers, cv, loc, issued, kcalls, inits, env, heur,
                   sto, mem, stoop>>

(* As TakenPhase, but taking the phase after the current one. *)
TakenPhaseNext(t) == pool.phase + 1

(* worker->phase = pool->phase: the phase the worker takes. *)
TakenPhase(t) == pool.phase

(* mag_worker_await_work: the body executed while holding the mutex. *)
AwaitCheck(t) ==
    /\ pc[t] = "await_check"
    /\ mtx = t
    /\ IF ~HasWork(t)
       THEN /\ cv' = cv \cup {t}                 \* mag_cv_wait releases the mutex
            /\ pc' = [pc EXCEPT ![t] = "await_wait"]
            /\ UNCHANGED workers
       ELSE IF pool.interrupt
       THEN /\ pc' = [pc EXCEPT ![t] = "exit"]
            /\ UNCHANGED <<cv, workers>>
       ELSE /\ workers' = [workers EXCEPT ![t].phase = TakenPhase(t)]
            /\ pc' = [pc EXCEPT ![t] = "exec_check"]
            /\ UNCHANGED cv
    /\ mtx' = NoThread
    /\ UNCHANGED <<ctx, dvc, pool, loc, issued, kcalls, inits, env, heur,
                   sto, mem, stoop>>

(* mag_cv_wait returns: the thread was woken and re-acquires the mutex. *)
CvWake(t) ==
    /\ pc[t] \in {"await_wait", "barrier_wait"}
    /\ t \notin cv
    /\ CanLock
    /\ mtx' = t
    /\ pc' = [pc EXCEPT ![t] = IF pc[t] = "await_wait" THEN "await_check"
                                                      ELSE "barrier_check"]
    /\ UNCHANGED <<ctx, dvc, pool, workers, cv, loc, issued, kcalls, inits, env, heur,
                   sto, mem, stoop>>

(* A condition variable may wake a waiter spuriously. *)
SpuriousWake(t) ==
    /\ t \in cv
    /\ cv' = cv \ {t}
    /\ UNCHANGED <<ctx, dvc, pool, workers, mtx, pc, loc, issued, kcalls, inits, env, heur,
                   sto, mem, stoop>>

(* mag_worker_thread_exec_op: go offline and return. *)
WorkerExit(t) ==
    /\ pc[t] = "exit"
    /\ pool' = [pool EXCEPT !.num_workers_online = @ - 1]
    /\ pc' = [pc EXCEPT ![t] = "exited"]
    /\ UNCHANGED <<ctx, dvc, workers, mtx, cv, loc, issued, kcalls, inits, env, heur,
                   sto, mem, stoop>>

(***************************************************************************)
(* mag_worker_exec_and_broadcast, run by the workers and by the caller.    *)
(***************************************************************************)

(* As IsActive, but comparing with the allocated workers. *)
IsActiveAllocated(t) ==
    workers[PayloadIdx(t)].payload.thread_idx < pool.num_allocated_workers

(* As IsActive, but with an inclusive comparison. *)
IsActiveInclusive(t) ==
    workers[PayloadIdx(t)].payload.thread_idx <= pool.num_active_workers

(* The test whether this thread is active; both operands are read without
   the mutex. *)
IsActive(t) ==
    workers[PayloadIdx(t)].payload.thread_idx < pool.num_active_workers

ExecCheck(t) ==
    /\ pc[t] = "exec_check"
    /\ pc' = [pc EXCEPT ![t] = IF IsActive(t) THEN "exec_local" ELSE "bcast_lock"]
    /\ UNCHANGED <<ctx, dvc, pool, workers, mtx, cv, loc, issued, kcalls, inits, env, heur,
                   sto, mem, stoop>>

(* mag_worker_exec_thread_local: enter the kernel if the payload has a node. *)
ExecLocal(t) ==
    /\ pc[t] = "exec_local"
    /\ LET payload == workers[PayloadIdx(t)].payload
       IN  IF payload.node # NULL
           THEN /\ kcalls' = kcalls (+) SetToBag({payload})
                /\ pc' = [pc EXCEPT ![t] = "kernel"]
           ELSE /\ pc' = [pc EXCEPT ![t] = "bcast_lock"]
                /\ UNCHANGED kcalls
    /\ UNCHANGED <<ctx, dvc, pool, workers, mtx, cv, loc, issued, inits, env, heur,
                   sto, mem, stoop>>

(* mag_worker_exec_thread_local: the kernel returns; payload->node = NULL. *)
KernelDone(t) ==
    /\ pc[t] = "kernel"
    /\ workers' = [workers EXCEPT ![PayloadIdx(t)].payload.node = NULL]
    /\ pc' = [pc EXCEPT ![t] = "bcast_lock"]
    /\ UNCHANGED <<ctx, dvc, pool, mtx, cv, loc, issued, kcalls, inits, env, heur,
                   sto, mem, stoop>>

BcastLock(t) ==
    /\ pc[t] = "bcast_lock"
    /\ CanLock
    /\ mtx' = t
    /\ pc' = [pc EXCEPT ![t] = "bcast"]
    /\ UNCHANGED <<ctx, dvc, pool, workers, cv, loc, issued, kcalls, inits, env, heur,
                   sto, mem, stoop>>

(* As LastToFinish, but counting the active workers only. *)
LastToFinishActive == pool.num_completed + 1 = pool.num_active_workers

(* The test whether this completion is the last one of the phase. *)
LastToFinish == pool.num_completed + 1 = pool.num_allocated_workers

(* ++num_completed; the last one broadcasts; unlock. *)
Bcast(t) ==
    /\ pc[t] = "bcast"
    /\ mtx = t
    /\ pool' = [pool EXCEPT !.num_completed = @ + 1]
    /\ cv' = IF LastToFinish THEN {} ELSE cv
    /\ mtx' = NoThread
    /\ pc' = [pc EXCEPT ![t] = IF t \in Callers THEN "barrier_lock" ELSE "await_lock"]
    /\ UNCHANGED <<ctx, dvc, workers, loc, issued, kcalls, inits, env, heur,
                   sto, mem, stoop>>


(***************************************************************************)
(* Eager forward execution by the calling thread.                          *)
(***************************************************************************)

(* As RunsInline, but sending width 1 to the pool. *)
RunsInlineStrict(d, num_active_workers) == ~d.pool \/ num_active_workers < 1

(* mag_cpu_exec_fwd: the test for the single threaded path. *)
RunsInline(d, num_active_workers) == ~d.pool \/ num_active_workers <= 1

(* As InlinePayload, but announcing all allocated workers. *)
InlinePayloadWide(node) ==
    [node |-> node, thread_idx |-> 0, thread_num |-> XMax(2, dvc.num_allocated_workers)]

(* mag_cpu_exec_fwd: the payload of the single threaded path. *)
InlinePayload(node) == [node |-> node, thread_idx |-> 0, thread_num |-> 1]

(* mag_cpu_exec_fwd: choose the width and the path. *)
ExecFwd(c, numel) ==
    /\ pc[c] = "idle"
    /\ dvc.alive
    /\ Len(issued) < MaxCalls
    /\ \E num_active_workers \in DynamicWorkScaling(dvc, numel) :
         LET node == Len(issued) + 1
         IN  /\ issued' = Append(issued, [numel |-> numel, width |-> num_active_workers,
                                          caller |-> c])
             /\ kcalls' = EmptyBag
             /\ IF RunsInline(dvc, num_active_workers)
                THEN /\ loc' = [loc EXCEPT ![c].payload = InlinePayload(node)]
                     /\ pc' = [pc EXCEPT ![c] = "inline_local"]
                ELSE /\ loc' = [loc EXCEPT ![c].node = node,
                                           ![c].k = num_active_workers]
                     /\ pc' = [pc EXCEPT ![c] = "kick_lock"]
    /\ UNCHANGED <<ctx, dvc, pool, workers, mtx, cv, inits, env, heur, sto, mem, stoop>>

(* mag_worker_exec_thread_local on the caller's own payload. *)
InlineLocal(c) ==
    /\ pc[c] = "inline_local"
    /\ IF loc[c].payload.node # NULL
       THEN /\ kcalls' = kcalls (+) SetToBag({loc[c].payload})
            /\ pc' = [pc EXCEPT ![c] = "inline_kernel"]
       ELSE /\ pc' = [pc EXCEPT ![c] = "idle"]
            /\ UNCHANGED kcalls
    /\ UNCHANGED <<ctx, dvc, pool, workers, mtx, cv, loc, issued, inits, env, heur,
                   sto, mem, stoop>>

(* payload->node = NULL; exec_fwd returns and its locals die. *)
InlineDone(c) ==
    /\ pc[c] = "inline_kernel"
    /\ loc' = [loc EXCEPT ![c] = NoLocals]
    /\ pc' = [pc EXCEPT ![c] = "idle"]
    /\ UNCHANGED <<ctx, dvc, pool, workers, mtx, cv, issued, kcalls, inits, env, heur,
                   sto, mem, stoop>>

(* As KickLock, but entering the kickoff without the mutex. *)
KickLockFree(c) ==
    /\ pc[c] = "kick_lock"
    /\ pc' = [pc EXCEPT ![c] = "kick_active"]
    /\ UNCHANGED <<ctx, dvc, pool, workers, mtx, cv, loc, issued, kcalls, inits, env,
                   heur, sto, mem, stoop>>

(* mag_threadpool_kickoff *)
KickLock(c) ==
    /\ pc[c] = "kick_lock"
    /\ CanLock
    /\ mtx' = c
    /\ pc' = [pc EXCEPT ![c] = "kick_active"]
    /\ UNCHANGED <<ctx, dvc, pool, workers, cv, loc, issued, kcalls, inits, env, heur,
                   sto, mem, stoop>>

KickActive(c) ==
    /\ pc[c] = "kick_active"
    /\ pool' = [pool EXCEPT !.num_active_workers = loc[c].k]
    /\ loc' = [loc EXCEPT ![c].i = 0]
    /\ pc' = [pc EXCEPT ![c] = "kick_payload"]
    /\ UNCHANGED <<ctx, dvc, workers, mtx, cv, issued, kcalls, inits, env, heur,
                   sto, mem, stoop>>

KickPayload(c) ==
    /\ pc[c] = "kick_payload"
    /\ LET i == loc[c].i
       IN  IF i < pool.num_allocated_workers
           THEN /\ workers' = [workers EXCEPT ![i].payload.node = loc[c].node,
                                              ![i].payload.thread_num = loc[c].k]
                /\ loc' = [loc EXCEPT ![c].i = i + 1]
                /\ UNCHANGED pc
           ELSE /\ pc' = [pc EXCEPT ![c] = "kick_commit"]
                /\ UNCHANGED <<workers, loc>>
    /\ UNCHANGED <<ctx, dvc, pool, mtx, cv, issued, kcalls, inits, env, heur,
                   sto, mem, stoop>>

(* As KickCommit, but without resetting the completion counter. *)
KickCommitNoReset(c) ==
    /\ pc[c] = "kick_commit"
    /\ mtx = c
    /\ pool' = [pool EXCEPT !.phase = @ + 1]
    /\ mtx' = NoThread
    /\ pc' = [pc EXCEPT ![c] = "wake_workers"]
    /\ UNCHANGED <<ctx, dvc, workers, cv, loc, issued, kcalls, inits, env, heur,
                   sto, mem, stoop>>

(* ++pool->phase; pool->num_completed = 0; unlock. *)
KickCommit(c) ==
    /\ pc[c] = "kick_commit"
    /\ mtx = c
    /\ pool' = [pool EXCEPT !.phase = @ + 1, !.num_completed = 0]
    /\ mtx' = NoThread
    /\ pc' = [pc EXCEPT ![c] = "wake_workers"]
    /\ UNCHANGED <<ctx, dvc, workers, cv, loc, issued, kcalls, inits, env, heur,
                   sto, mem, stoop>>

(* As WakeWorkers, but with the caller going straight to the barrier. *)
WakeWorkersOnly(c) ==
    /\ pc[c] = "wake_workers"
    /\ cv' = {}
    /\ pc' = [pc EXCEPT ![c] = "barrier_lock"]
    /\ UNCHANGED <<ctx, dvc, pool, workers, mtx, loc, issued, kcalls, inits, env, heur,
                   sto, mem, stoop>>

(* mag_threadpool_parallel_compute: mag_cv_broadcast, then the caller runs
   mag_worker_exec_and_broadcast on the payload of worker 0. *)
WakeWorkers(c) ==
    /\ pc[c] = "wake_workers"
    /\ cv' = {}
    /\ pc' = [pc EXCEPT ![c] = "exec_check"]
    /\ UNCHANGED <<ctx, dvc, pool, workers, mtx, loc, issued, kcalls, inits, env, heur,
                   sto, mem, stoop>>

(* mag_threadpool_barrier *)
BarrierLock(c) ==
    /\ pc[c] = "barrier_lock"
    /\ CanLock
    /\ mtx' = c
    /\ pc' = [pc EXCEPT ![c] = "barrier_check"]
    /\ UNCHANGED <<ctx, dvc, pool, workers, cv, loc, issued, kcalls, inits, env, heur,
                   sto, mem, stoop>>

(* As BarrierOpen, but satisfied by the first completion. *)
BarrierOpenAny == pool.num_completed >= 1

(* As BarrierOpen, but waiting for the active workers only. *)
BarrierOpenActive == pool.num_completed >= pool.num_active_workers

BarrierOpen == pool.num_completed = pool.num_allocated_workers

BarrierCheck(c) ==
    /\ pc[c] = "barrier_check"
    /\ mtx = c
    /\ IF ~BarrierOpen
       THEN /\ cv' = cv \cup {c}
            /\ pc' = [pc EXCEPT ![c] = "barrier_wait"]
       ELSE /\ pc' = [pc EXCEPT ![c] = "idle"]      \* exec_fwd returns
            /\ UNCHANGED cv
    /\ loc' = IF BarrierOpen THEN [loc EXCEPT ![c] = NoLocals] ELSE loc
    /\ mtx' = NoThread
    /\ UNCHANGED <<ctx, dvc, pool, workers, issued, kcalls, inits, env, heur,
                   sto, mem, stoop>>

(***************************************************************************)
(* Device destruction.                                                     *)
(***************************************************************************)

(* mag_cpu_destroy_device: called by one thread when no thread is inside
   the device; the other callers lose the device. *)
DestroyDevice(c) ==
    /\ \A d \in Callers : pc[d] = "idle"
    /\ dvc.alive
    /\ IF dvc.pool
       THEN /\ pc' = [t \in DOMAIN pc |->
                        IF t = c THEN "destroy_lock"
                        ELSE IF t \in Callers THEN "none" ELSE pc[t]]
            /\ UNCHANGED <<dvc, issued, kcalls>>
       ELSE /\ pc' = [t \in Callers |-> "none"]
            /\ dvc' = NoDevice
            /\ issued' = << >>
            /\ kcalls' = EmptyBag
    /\ UNCHANGED <<ctx, pool, workers, mtx, cv, loc, inits, env, heur, sto, mem, stoop>>

(* mag_threadpool_destroy *)
DestroyLock(c) ==
    /\ pc[c] = "destroy_lock"
    /\ CanLock
    /\ mtx' = c
    /\ pc' = [pc EXCEPT ![c] = "destroy_interrupt"]
    /\ UNCHANGED <<ctx, dvc, pool, workers, cv, loc, issued, kcalls, inits, env, heur,
                   sto, mem, stoop>>

(* As DestroyInterrupt, but advancing the phase only. *)
DestroyInterruptPhaseOnly(c) ==
    /\ pc[c] = "destroy_interrupt"
    /\ mtx = c
    /\ pool' = [pool EXCEPT !.phase = @ + 1]
    /\ mtx' = NoThread
    /\ pc' = [pc EXCEPT ![c] = "destroy_broadcast"]
    /\ UNCHANGED <<ctx, dvc, workers, cv, loc, issued, kcalls, inits, env, heur,
                   sto, mem, stoop>>

DestroyInterrupt(c) ==
    /\ pc[c] = "destroy_interrupt"
    /\ mtx = c
    /\ pool' = [pool EXCEPT !.interrupt = TRUE, !.phase = @ + 1]
    /\ mtx' = NoThread
    /\ pc' = [pc EXCEPT ![c] = "destroy_broadcast"]
    /\ UNCHANGED <<ctx, dvc, workers, cv, loc, issued, kcalls, inits, env, heur,
                   sto, mem, stoop>>

(* As DestroyBroadcast, but without waking the workers. *)
DestroyBroadcastMissing(c) ==
    /\ pc[c] = "destroy_broadcast"
    /\ pc' = [pc EXCEPT ![c] = "destroy_spin"]
    /\ UNCHANGED <<ctx, dvc, pool, workers, mtx, cv, loc, issued, kcalls, inits, env, heur,
                   sto, mem, stoop>>

(* mag_cv_broadcast: wake up all workers to exit. *)
DestroyBroadcast(c) ==
    /\ pc[c] = "destroy_broadcast"
    /\ cv' = {}
    /\ pc' = [pc EXCEPT ![c] = "destroy_spin"]
    /\ UNCHANGED <<ctx, dvc, pool, workers, mtx, loc, issued, kcalls, inits, env, heur,
                   sto, mem, stoop>>

DestroySpin(c) ==
    /\ pc[c] = "destroy_spin"
    /\ pool.num_workers_online = 0
    /\ pc' = [pc EXCEPT ![c] = "destroy_join"]
    /\ UNCHANGED <<ctx, dvc, pool, workers, mtx, cv, loc, issued, kcalls, inits, env, heur,
                   sto, mem, stoop>>

(* Join the async workers, free the pool and the device. *)
DestroyJoin(c) ==
    /\ pc[c] = "destroy_join"
    /\ \A i \in DOMAIN workers : workers[i].is_async => pc[i] = "exited"
    /\ pc' = [t \in Callers |-> "none"]
    /\ dvc' = NoDevice
    /\ pool' = NoPool
    /\ workers' = << >>
    /\ cv' = {}
    /\ loc' = [loc EXCEPT ![c] = NoLocals]
    /\ issued' = << >>
    /\ kcalls' = EmptyBag
    /\ UNCHANGED <<ctx, mtx, inits, env, heur, sto, mem, stoop>>

(***************************************************************************)
(* The storage buffer.  Addresses and sizes are unsigned PtrBits-bit       *)
(* integers.  A failed mag_assert2 aborts the process (outcome "assert");  *)
(* an access outside the block is undefined: it either faults (outcome     *)
(* "fault") or is carried out on the neighbouring memory (outcome          *)
(* "overrun").  After "assert" and "fault" the process is gone.            *)
(***************************************************************************)
StorageAlign == 16                         \* size_t align = 16
AddrSpace == Pow(2, PtrBits)
Bytes == {0, 171}                          \* the uint8_t values 0x00 and 0xAB

Wrap(a) == (a + AddrSpace) % AddrSpace     \* unsigned arithmetic, for a >= -AddrSpace

(* The addresses mag_alloc_aligned may return for a block of MaxSize bytes. *)
StorageBases ==
    {a \in 1..(AddrSpace - 1) : a % StorageAlign = 0 /\ a + MaxSize < AddrSpace}

StorageSizes == 0..MaxSize
StorageOffsets == (0..(MaxSize + 1)) \cup {AddrSpace - b : b \in StorageBases}
                      \cup {AddrSpace - 2, AddrSpace - 1}
StorageLengths == 0..MaxSize

Running == stoop.outcome \in {"ok", "overrun"}

InBlock(s, a) == s.base <= a /\ a < s.base + s.size

Touched(dest, len) == {Wrap(dest + i) : i \in 0..(len - 1)}

Overruns(s, dest, len) == \E a \in Touched(dest, len) : ~InBlock(s, a)

(* The block after vals[0..len-1] were stored at dest, dest+1, ... *)
WriteBytes(s, block, dest, len, vals) ==
    [j \in 1..s.size |->
        LET a == s.base + j - 1
        IN  IF a \in Touched(dest, len)
            THEN vals[CHOOSE i \in 0..(len - 1) : Wrap(dest + i) = a]
            ELSE block[j]]

(* memset / memcpy into the block: defined when it stays inside. *)
StoreBytes(op, dest, len, vals) ==
    IF Overruns(sto, dest, len)
    THEN \/ /\ stoop' = [op EXCEPT !.outcome = "fault"]
            /\ UNCHANGED mem
         \/ /\ stoop' = [op EXCEPT !.outcome = "overrun"]
            /\ mem' = WriteBytes(sto, mem, dest, len, vals)
    ELSE /\ stoop' = op
         /\ mem' = WriteBytes(sto, mem, dest, len, vals)

(* mag_cpu_alloc_storage: the block is not initialised. *)
AllocStorage(c, size) ==
    /\ pc[c] = "idle" /\ dvc.alive /\ Running
    /\ sto = NoBuffer
    /\ IF size = 0
       THEN /\ stoop' = [NoOp EXCEPT !.op = "alloc", !.outcome = "assert"]
            /\ UNCHANGED <<sto, mem>>
       ELSE \E base \in StorageBases, block \in [1..size -> Bytes] :
              /\ sto' = [base |-> base, size |-> size, alignment |-> StorageAlign,
                         host |-> "CPU", set |-> "mag_cpu_buf_set",
                         cpy_host_device |-> "mag_cpu_buf_cpy_host_device",
                         cpy_device_host |-> "mag_cpu_buf_cpy_device_host"]
              /\ mem' = block
              /\ stoop' = [NoOp EXCEPT !.op = "alloc", !.n = size]
    /\ UNCHANGED <<ctx, dvc, pool, workers, mtx, cv, pc, loc, issued, kcalls, inits,
                   env, heur>>

(* mag_cpu_free_storage *)
FreeStorage(c) ==
    /\ pc[c] = "idle" /\ dvc.alive /\ Running
    /\ sto # NoBuffer
    /\ sto' = NoBuffer
    /\ mem' = << >>
    /\ stoop' = [NoOp EXCEPT !.op = "free"]
    /\ UNCHANGED <<ctx, dvc, pool, workers, mtx, cv, pc, loc, issued, kcalls, inits,
                   env, heur>>

(* As BufSetStart, but filling from the start of the block. *)
BufSetStartBase(s, offs) == s.base

(* The first byte mag_cpu_buf_set fills: sto->base+offs. *)
BufSetStart(s, offs) == Wrap(s.base + offs)

(* mag_cpu_buf_set *)
BufSet(c, offs, x) ==
    /\ pc[c] = "idle" /\ dvc.alive /\ Running
    /\ sto.set = "mag_cpu_buf_set"
    /\ LET op == [NoOp EXCEPT !.op = "set", !.offs = offs, !.x = x]
           len == Wrap(sto.size - offs)
       IN  IF ~(Wrap(sto.base + offs) <= Wrap(sto.base + sto.size))
           THEN /\ stoop' = [op EXCEPT !.outcome = "assert"]
                /\ UNCHANGED mem
           ELSE StoreBytes(op, BufSetStart(sto, offs), len, [i \in 0..(len - 1) |-> x])
    /\ UNCHANGED <<ctx, dvc, pool, workers, mtx, cv, pc, loc, issued, kcalls, inits,
                   env, heur, sto>>

(* The bounds test of the two copies: sto->base+offs+n <= sto->base+sto->size. *)
CpyInBounds(s, offs, n) == Wrap(Wrap(s.base + offs) + n) <= Wrap(s.base + s.size)

(* mag_cpu_buf_cpy_host_device *)
CpyHostDevice(c, offs, src, n) ==
    /\ pc[c] = "idle" /\ dvc.alive /\ Running
    /\ sto.cpy_host_device = "mag_cpu_buf_cpy_host_device"
    /\ LET op == [NoOp EXCEPT !.op = "cpy_host_device", !.offs = offs, !.n = n,
                              !.src = src]
       IN  IF ~CpyInBounds(sto, offs, n)
           THEN /\ stoop' = [op EXCEPT !.outcome = "assert"]
                /\ UNCHANGED mem
           ELSE StoreBytes(op, Wrap(sto.base + offs), n, [i \in 0..(n - 1) |-> src[i + 1]])
    /\ UNCHANGED <<ctx, dvc, pool, workers, mtx, cv, pc, loc, issued, kcalls, inits,
                   env, heur, sto>>

(* mag_cpu_buf_cpy_device_host: bytes read outside the block are arbitrary. *)
CpyDeviceHost(c, offs, n) ==
    /\ pc[c] = "idle" /\ dvc.alive /\ Running
    /\ sto.cpy_device_host = "mag_cpu_buf_cpy_device_host"
    /\ LET op == [NoOp EXCEPT !.op = "cpy_device_host", !.offs = offs, !.n = n]
           from == Wrap(sto.base + offs)
       IN  IF ~CpyInBounds(sto, offs, n)
           THEN stoop' = [op EXCEPT !.outcome = "assert"]
           ELSE \E dst \in [1..n -> Bytes] :
                  /\ \A i \in 1..n :
                        InBlock(sto, Wrap(from + i - 1)) =>
                            dst[i] = mem[Wrap(from + i - 1) - sto.base + 1]
                  /\ IF Overruns(sto, from, n)
                     THEN \/ stoop' = [op EXCEPT !.outcome = "fault"]
                          \/ stoop' = [op EXCEPT !.outcome = "overrun", !.dst = dst]
                     ELSE stoop' = [op EXCEPT !.dst = dst]
    /\ UNCHANGED <<ctx, dvc, pool, workers, mtx, cv, pc, loc, issued, kcalls, inits,
                   env, heur, sto, mem>>

(* The storage buffer of a single threaded device on its own. *)
StorageInit ==
    /\ env = [configs |-> {}, numels |-> {}, hosts |-> {}, perms |-> {},
              callers |-> MainThread]
    /\ ctx = NoCtx
    /\ dvc = [alive |-> TRUE, pool |-> FALSE, num_allocated_workers |-> 0,
              kernels |-> DetectOptimalSpecialization(NoCtx.host, PermSingle, NoKernels)]
    /\ pool = NoPool
    /\ workers = << >>
    /\ mtx = NoThread
    /\ cv = {}
    /\ pc = [t \in Callers |-> "idle"]
    /\ loc = [c \in Callers |-> NoLocals]
    /\ issued = << >>
    /\ kcalls = EmptyBag
    /\ inits = 1
    /\ heur = NoHeur
    /\ sto = NoBuffer
    /\ mem = << >>
    /\ stoop = NoOp

StorageNext ==
    \E c \in Callers :
        \/ \E size \in StorageSizes : AllocStorage(c, size)
        \/ \E offs \in StorageOffsets, x \in Bytes : BufSet(c, offs, x)
        \/ \E offs \in StorageOffsets, n \in StorageLengths :
              \E src \in [1..n -> Bytes] : CpyHostDevice(c, offs, src, n)
        \/ \E offs \in StorageOffsets, n \in StorageLengths : CpyDeviceHost(c, offs, n)
        \/ FreeStorage(c)

StorageSpec == StorageInit /\ [][StorageNext]_vars

(***************************************************************************)
(* The specification of the backend.                                       *)
(***************************************************************************)
AsyncThreads == (DOMAIN pc) \ Callers

CallerStep(c) ==
    \/ \E cfg \in env.configs, host \in env.hosts, perm \in env.perms :
          InitDevice(c, cfg[1], cfg[2], host, perm)
    \/ CreateWorker(c)
    \/ CreateSpin(c)
    \/ \E numel \in env.numels : ExecFwd(c, numel)
    \/ InlineLocal(c)
    \/ InlineDone(c)
    \/ KickLock(c)
    \/ KickActive(c)
    \/ KickPayload(c)
    \/ KickCommit(c)
    \/ WakeWorkers(c)
    \/ BarrierLock(c)
    \/ BarrierCheck(c)
    \/ DestroyDevice(c)
    \/ DestroyLock(c)
    \/ DestroyInterrupt(c)
    \/ DestroyBroadcast(c)
    \/ DestroySpin(c)
    \/ DestroyJoin(c)

WorkerStep(t) ==
    \/ WorkerStart(t)
    \/ AwaitLock(t)
    \/ AwaitCheck(t)
    \/ WorkerExit(t)

ExecStep(t) ==
    \/ ExecCheck(t)
    \/ ExecLocal(t)
    \/ KernelDone(t)
    \/ BcastLock(t)
    \/ Bcast(t)

Next ==
    \/ \E c \in Callers : CallerStep(c)
    \/ \E t \in AsyncThreads : WorkerStep(t)
    \/ \E t \in DOMAIN pc : ExecStep(t)
    \/ \E t \in DOMAIN pc : CvWake(t)
    \/ \E t \in DOMAIN pc : SpuriousWake(t)

Spec == Init /\ [][Next]_vars


(***************************************************************************)
(* Scheduling: every thread that can take a step eventually takes one, and *)
(* a thread that repeatedly finds the mutex free eventually acquires it.   *)
(* The environment is not obliged to initialise or destroy a device or to  *)
(* submit work, and spurious wake-ups need not happen.                     *)
(***************************************************************************)
ConfiguredThreads == {ResolveThreads(cfg[1], cfg[2]) : cfg \in DeviceConfigs}

(* The threads of the largest device of DeviceConfigs. *)
AllThreads ==
    0..((CHOOSE n \in ConfiguredThreads : \A m \in ConfiguredThreads : m <= n) - 1)

LockStep(t) ==
    \/ t \in AsyncThreads /\ AwaitLock(t)
    \/ BcastLock(t)
    \/ CvWake(t)
    \/ t \in Callers /\ (KickLock(t) \/ BarrierLock(t) \/ DestroyLock(t))

RunStep(t) ==
    \/ t \in AsyncThreads /\ (WorkerStart(t) \/ AwaitCheck(t) \/ WorkerExit(t))
    \/ ExecCheck(t) \/ ExecLocal(t) \/ KernelDone(t) \/ Bcast(t)
    \/ t \in Callers /\ (\/ CreateWorker(t) \/ CreateSpin(t)
                         \/ InlineLocal(t) \/ InlineDone(t)
                         \/ KickActive(t) \/ KickPayload(t) \/ KickCommit(t)
                         \/ WakeWorkers(t) \/ BarrierCheck(t)
                         \/ DestroyInterrupt(t) \/ DestroyBroadcast(t)
                         \/ DestroySpin(t) \/ DestroyJoin(t))

Fairness ==
    \A t \in AllThreads :
        /\ WF_vars(t \in DOMAIN pc /\ RunStep(t))
        /\ SF_vars(t \in DOMAIN pc /\ LockStep(t))

FairSpec == Spec /\ Fairness

ScenarioSpec == ScenarioInit /\ [][Next]_vars

DuoSpec == DuoInit /\ [][Next]_vars

InExecFwd(c) ==
    pc[c] \in {"inline_local", "inline_kernel", "kick_lock", "kick_active",
               "kick_payload", "kick_commit", "wake_workers", "exec_check",
               "exec_local", "kernel", "bcast_lock", "bcast", "barrier_lock",
               "barrier_check", "barrier_wait"}

(***************************************************************************)
(* The work scaling heuristic on its own: a device with or without a pool, *)
(* and the heuristic applied to two element counts a <= b.                 *)
(***************************************************************************)
HeurInit ==
    /\ env = [configs |-> {}, numels |-> HeurNumels, hosts |-> {}, perms |-> {},
              callers |-> MainThread]
    /\ ctx = NoCtx
    /\ \E n \in HeurWorkers :
          dvc = [alive |-> TRUE, pool |-> (n # 0), num_allocated_workers |-> n,
                 kernels |-> NoKernels]
    /\ pool = NoPool
    /\ workers = << >>
    /\ mtx = NoThread
    /\ cv = {}
    /\ pc = [t \in Callers |-> "idle"]
    /\ loc = [c \in Callers |-> NoLocals]
    /\ issued = << >>
    /\ kcalls = EmptyBag
    /\ inits = 1
    /\ \E a \in HeurNumels, b \in HeurNumels :
          /\ a <= b
          /\ heur = [a |-> a, b |-> b, ra |-> 0, rb |-> 0, done |-> FALSE]
    /\ sto = NoBuffer
    /\ mem = << >>
    /\ stoop = NoOp

HeurApply ==
    /\ ~heur.done
    /\ \E ra \in DynamicWorkScaling(dvc, heur.a), rb \in DynamicWorkScaling(dvc, heur.b) :
          heur' = [heur EXCEPT !.ra = ra, !.rb = rb, !.done = TRUE]
    /\ UNCHANGED <<ctx, dvc, pool, workers, mtx, cv, pc, loc, issued, kcalls, inits, env,
                   sto, mem, stoop>>

HeurNext == HeurApply

HeurSpec == HeurInit /\ [][HeurNext]_vars

(***************************************************************************)
(* The specialization gate on its own: single threaded devices initialised *)
(* and destroyed on every host, with every table of required features.     *)
(***************************************************************************)
GateConfigs == {<<1, 0>>}

GateInit ==
    /\ env = [configs |-> GateConfigs, numels |-> {},
              hosts |-> GateHosts, perms |-> GatePerms, callers |-> MainThread]
    /\ Boot

GateNext ==
    \E c \in Callers :
        \/ \E cfg \in env.configs, host \in env.hosts, perm \in env.perms :
              InitDevice(c, cfg[1], cfg[2], host, perm)
        \/ DestroyDevice(c)

GateSpec == GateInit /\ [][GateNext]_vars

(***************************************************************************)
(* The shared data of the pool that the next step of thread t reads or     *)
(* writes: the pool's phase (P), num_completed (c), num_active_workers (k) *)
(* and interrupt (I), and the payload of a worker.                         *)
(***************************************************************************)
Accessed(t) ==
    CASE pc[t] = "start"             -> {"payload"}           \* thread_idx, for the name
      [] pc[t] = "await_check"       -> {"interrupt", "phase"}
      [] pc[t] = "exec_check"        -> {"payload", "num_active_workers"}
      [] pc[t] = "exec_local"        -> {"payload"}           \* payload->node
      [] pc[t] = "kernel"            -> {"payload"}           \* the kernel; node = NULL
      [] pc[t] = "bcast"             -> {"num_completed"}
      [] pc[t] = "create_workers"    -> {"payload"}
      [] pc[t] = "kick_active"       -> {"num_active_workers"}
      [] pc[t] = "kick_payload"      -> {"payload"}
      [] pc[t] = "kick_commit"       -> {"phase", "num_completed"}
      [] pc[t] = "barrier_check"     -> {"num_completed"}
      [] pc[t] = "destroy_interrupt" -> {"interrupt", "phase"}
      [] OTHER                       -> {}

(***************************************************************************)
(* Vocabulary of the properties.                                           *)
(***************************************************************************)
Main == CHOOSE c \in Callers : TRUE

LastCall == issued[Len(issued)]        \* the exec_fwd call issued last
LastNode == Len(issued)                \* its node

(* exec_fwd has returned from its last call. *)
Returned == pc[Main] = "idle" /\ issued # << >>

(* The last call was dispatched to the pool with width >= 2. *)
WasParallel == issued # << >> /\ dvc.pool /\ LastCall.width >= 2

(* The last call ran on a device with a pool and was given width <= 1. *)
WasNarrow == issued # << >> /\ dvc.pool /\ LastCall.width <= 1

InKernelShare(t) == pc[t] \in {"exec_check", "exec_local", "kernel"}

Invoked(node, i, k) ==
    CopiesIn([node |-> node, thread_idx |-> i, thread_num |-> k], kcalls)


(***************************************************************************)
(* The share contract of a kernel (4.A of the design): the kernel invoked  *)
(* with thread index i of n writes the output elements e with e % n = i.   *)
(***************************************************************************)
OutputElems == 6
Elems == 0..(OutputElems - 1)

KernelShare(thread_idx, thread_num) == {e \in Elems : e % thread_num = thread_idx}

RECURSIVE SumCopies(_)
SumCopies(rs) ==
    IF rs = {} THEN 0
    ELSE LET r == CHOOSE x \in rs : TRUE
         IN  CopiesIn(r, kcalls) + SumCopies(rs \ {r})

(* How often output element e of node was written during the current call. *)
Writes(node, e) ==
    SumCopies({r \in BagToSet(kcalls) :
                 r.node = node /\ e \in KernelShare(r.thread_idx, r.thread_num)})

(***************************************************************************)
(* C1: on the parallel path exec_fwd does not return before every active   *)
(* worker 0..k-1 has run the node's kernel for this call and left it: when *)
(* the call has returned, each index below the width was invoked and no    *)
(* thread is about to enter, or still inside, a kernel share.              *)
(***************************************************************************)
C1_BarrierWaitsForKernels ==
    (Returned /\ WasParallel) =>
        /\ \A i \in 0..(LastCall.width - 1) :
              /\ Invoked(LastNode, i, LastCall.width) >= 1
              /\ workers[i].payload.node = NULL
        /\ \A t \in DOMAIN pc : ~InKernelShare(t)

C1_Witness ==
    /\ Returned /\ WasParallel
    /\ LastCall.width < pool.num_allocated_workers

(***************************************************************************)
(* C2: during and after a parallel call of width k the kernel is invoked   *)
(* at most once per thread index, only for indices below k, and only with  *)
(* thread count k and the node of the call; when the call has returned it  *)
(* was invoked exactly once for each index 0..k-1, so that every output    *)
(* element was written exactly once, as by a call of width 1.              *)
(***************************************************************************)
C2_KernelOncePerActiveIndex ==
    WasParallel =>
        /\ \A r \in BagToSet(kcalls) :
              /\ r.node = LastNode
              /\ r.thread_num = LastCall.width
              /\ r.thread_idx \in 0..(LastCall.width - 1)
              /\ CopiesIn(r, kcalls) = 1
        /\ Returned =>
              /\ \A i \in 0..(LastCall.width - 1) :
                    Invoked(LastNode, i, LastCall.width) = 1
              /\ \A e \in Elems : Writes(LastNode, e) = 1

C2_Witness ==
    /\ Returned /\ WasParallel
    /\ LastCall.width \in 2..(pool.num_allocated_workers - 1)
    /\ Len(issued) >= 2

(***************************************************************************)
(* C3: on barrier return every allocated worker's local phase, that of     *)
(* worker 0 included, equals the pool's phase, and completed == allocated. *)
(***************************************************************************)
C3_PhasesAgreeOnReturn ==
    (Returned /\ WasParallel) =>
        /\ \A i \in 0..(pool.num_allocated_workers - 1) :
              workers[i].phase = pool.phase
        /\ pool.num_completed = pool.num_allocated_workers


(***************************************************************************)
(* C4: under fair scheduling every exec_fwd call eventually returns, for   *)
(* every number of successive calls and every sequence of widths: no       *)
(* wake-up is lost and the mutex and the condition variable never block    *)
(* the caller or a worker for ever.                                        *)
(***************************************************************************)
C4_ExecFwdReturns == \A c \in MainThread : InExecFwd(c) ~> (pc[c] = "idle")

C4_Witness ==
    /\ Returned /\ WasParallel
    /\ Len(issued) >= 2
    /\ issued[Len(issued) - 1].width >= 2
    /\ issued[Len(issued) - 1].width # LastCall.width


(* The scenario of four threads executing nodes of 500 x 500 elements. *)
AllBoundary == \A i \in 1..Len(issued) : issued[i].numel = 500 * 500

ParallelCalls == Cardinality({i \in 1..Len(issued) : issued[i].width >= 2})

FourThreadScenario ==
    /\ dvc.pool /\ pool.num_allocated_workers = 4
    /\ Returned /\ AllBoundary

(***************************************************************************)
(* C5: a device with four threads and the default heuristic parameters     *)
(* executes n successive nodes of 500 x 500 = 250 000 elements.            *)
(*                                                                         *)
(* As claimed: when the n calls have returned, the pool's phase is n and   *)
(* completed is 4.                                                         *)
(***************************************************************************)
C5_PhaseCountsAllCalls ==
    FourThreadScenario =>
        /\ pool.phase = Len(issued)
        /\ pool.num_completed = 4

(***************************************************************************)
(* C5, amended: when the n calls have returned, the pool's phase is the    *)
(* number of those calls that were dispatched to the pool (width >= 2),    *)
(* and completed is 4 on return from each of them.  250 000 is the         *)
(* threshold itself, where the width is 1 or 4 depending on the conversion *)
(* of the non-finite logarithm.                                            *)
(***************************************************************************)
C5_PhaseCountsParallelCalls ==
    FourThreadScenario =>
        /\ pool.phase = ParallelCalls
        /\ WasParallel => pool.num_completed = 4

C5_Witness ==
    /\ FourThreadScenario
    /\ Len(issued) >= 2
    /\ WasParallel
    /\ ParallelCalls < Len(issued)

(* The single threaded path on a device with a pool: what holds of the
   kernel invocations, and what every step during the call preserves. *)
InNarrowCall == dvc.pool /\ pc[Main] \in {"inline_local", "inline_kernel"}

Parked(t) == pc[t] \in {"await_lock", "await_check", "await_wait"}

C6_KernelOnceOnCaller ==
    WasNarrow =>
        /\ \A r \in BagToSet(kcalls) :
              /\ r = [node |-> LastNode, thread_idx |-> 0, thread_num |-> 1]
              /\ CopiesIn(r, kcalls) = 1
        /\ pc[Main] \in {"inline_kernel", "idle"} => Invoked(LastNode, 0, 1) = 1
        /\ (InNarrowCall \/ Returned) => \A t \in AsyncThreads : Parked(t)

C6_PoolUntouched ==
    (InNarrowCall \/ InNarrowCall') =>
        /\ pool' = pool
        /\ workers' = workers
        /\ \A t \in AsyncThreads : Parked(t) /\ Parked(t)'

(***************************************************************************)
(* C6: when the heuristic selects width <= 1 on a device that has a pool,  *)
(* exec_fwd runs the kernel exactly once, on the caller, with payload      *)
(* {node, 0, 1}, and no step taken during the call changes the pool (its   *)
(* phase, completed, active workers), a worker's payload or local phase,   *)
(* or lets an async worker leave its wait loop.                            *)
(***************************************************************************)
C6_InlineLeavesPoolUntouched == []C6_KernelOnceOnCaller /\ [][C6_PoolUntouched]_vars

C6_Witness ==
    /\ Returned /\ WasNarrow
    /\ pool.phase >= 1
    /\ \E t \in AsyncThreads : workers[t].phase = pool.phase


(* The phases of the life cycle of the pool, and the online-count in them. *)
InCreate == pc[Main] \in {"create_workers", "create_spin"}

InDestroy ==
    pc[Main] \in {"destroy_lock", "destroy_interrupt", "destroy_broadcast",
                  "destroy_spin", "destroy_join"}

PoolReady ==
    /\ dvc.pool /\ pc[Main] = "idle"
    /\ pool.num_workers_online = pool.num_allocated_workers - 1
    /\ ~pool.interrupt

C7_OnlineCounts ==
    /\ (dvc.pool /\ ~pool.interrupt) =>
          pool.num_workers_online = pool.num_allocated_workers - 1
    /\ pc[Main] = "destroy_join" =>
          /\ pool.num_workers_online = 0
          /\ \A t \in AsyncThreads : pc[t] = "exited"
    /\ ~dvc.alive => AsyncThreads = {} /\ pool.num_workers_online = 0

(***************************************************************************)
(* C7: the life cycle of the pool terminates cleanly.  Create returns only *)
(* with online-count = N-1; a destroy started with no operator in flight   *)
(* eventually returns, and when it joins, every async worker has exited    *)
(* and online-count is 0; every create, the one after a destroy included,  *)
(* eventually sees online-count reach N-1 and returns.                     *)
(***************************************************************************)
C7_LifecycleTerminates ==
    /\ []C7_OnlineCounts
    /\ InDestroy ~> (pc[Main] = "none" /\ ~dvc.alive)
    /\ InCreate ~> PoolReady
    /\ (InCreate /\ inits >= 2) ~> (PoolReady /\ inits >= 2)

C7_Witness == PoolReady /\ inits >= 2 /\ issued = << >>

(* The worker count a device is to have, and a device that is ready. *)
ExpectedThreads ==
    IF ctx.thread_count # 0 THEN ctx.thread_count
    ELSE IF ctx.cpu_virtual_cores > 1 THEN ctx.cpu_virtual_cores ELSE 1

DeviceReady == dvc.alive /\ ~InCreate

(***************************************************************************)
(* C8: device init resolves the worker count as desc.thread_count when     *)
(* that is non-zero and as max(1, cpu_virtual_cores) otherwise; a pool     *)
(* exists iff the count is > 1, then with exactly that many workers, of    *)
(* which worker 0 is the caller and the others are threads; without a pool *)
(* (thread_count = 1) the caller is the only thread, exec_fwd runs on it   *)
(* and destroy never enters the pool teardown.                             *)
(***************************************************************************)
C8_PoolIffManyThreads ==
    DeviceReady =>
        /\ dvc.pool <=> ExpectedThreads > 1
        /\ dvc.pool =>
              /\ pool.num_allocated_workers = ExpectedThreads
              /\ dvc.num_allocated_workers = ExpectedThreads
              /\ DOMAIN workers = 0..(ExpectedThreads - 1)
              /\ DOMAIN pc = 0..(ExpectedThreads - 1)
              /\ \A i \in DOMAIN workers :
                    /\ workers[i].is_async <=> i # 0
                    /\ workers[i].payload.thread_idx = i
        /\ ~dvc.pool =>
              /\ DOMAIN pc = Callers
              /\ pool = NoPool /\ workers = << >> /\ mtx = NoThread
              /\ pc[Main] \in {"idle", "inline_local", "inline_kernel"}
              /\ \A r \in BagToSet(kcalls) :
                    r = [node |-> LastNode, thread_idx |-> 0, thread_num |-> 1]
        /\ ctx.thread_count = 1 => ~dvc.pool

C8_Witness ==
    /\ DeviceReady /\ Returned
    /\ ctx.thread_count = 1
    /\ Invoked(LastNode, 0, 1) = 1
    /\ inits >= 2

(***************************************************************************)
(* C9: for every numel on a device with N allocated workers the heuristic  *)
(* returns a width in [1, N] (1 without a pool), 1 below the threshold,    *)
(* and widths that do not decrease with numel from the threshold on.       *)
(***************************************************************************)
C9_WidthBoundedMonotone ==
    heur.done =>
        LET n == IF dvc.pool THEN dvc.num_allocated_workers ELSE 1
        IN  /\ heur.ra \in 1..n /\ heur.rb \in 1..n
            /\ heur.a < NumelThreshold => heur.ra = 1
            /\ heur.b < NumelThreshold => heur.rb = 1
            /\ ~dvc.pool => heur.ra = 1 /\ heur.rb = 1
            /\ (heur.a >= NumelThreshold /\ heur.a < heur.b) => heur.ra <= heur.rb

(***************************************************************************)
(* C10: at the boundary the heuristic is guarded: numel = threshold - 1    *)
(* selects 1 worker, and numel = threshold, where the argument of the      *)
(* logarithm is 0, selects exactly 1 worker as well.                       *)
(***************************************************************************)
C10_ThresholdSelectsOne ==
    (heur.done /\ dvc.pool) =>
        /\ heur.a \in {NumelThreshold - 1, NumelThreshold} => heur.ra = 1
        /\ heur.b \in {NumelThreshold - 1, NumelThreshold} => heur.rb = 1

(* The specializations whose required features the host of the last init
   has: those with a non-empty, non-NULL list that is entirely present. *)
GateOrder == <<"avx512f", "avx2", "avx", "sse41">>

GateRequired(i) == ctx.feature_permutation[GateOrder[i]]

GateMatches ==
    {i \in 1..4 :
        /\ ~GateRequired(i).null
        /\ GateRequired(i).features # << >>
        /\ {GateRequired(i).features[j] : j \in DOMAIN GateRequired(i).features}
              \subseteq ctx.host.cpu_features}

(***************************************************************************)
(* C11: for every set of host features a device init calls exactly one     *)
(* installer: that of the first specialization in the order avx512f, avx2, *)
(* avx, sse41 whose non-empty required-feature list is entirely present    *)
(* (specializations with an empty or missing list are skipped), and the    *)
(* generic fallback, reporting fallback, when there is none.               *)
(***************************************************************************)
C11_OneInstallerBestFirst ==
    dvc.alive =>
        /\ Len(dvc.kernels.installed) = 1
        /\ IF GateMatches = {}
           THEN /\ dvc.kernels.installed = <<"fallback">>
                /\ ~dvc.kernels.specialized
           ELSE LET best == CHOOSE i \in GateMatches : \A j \in GateMatches : i <= j
                IN  /\ dvc.kernels.installed = <<GateOrder[best]>>
                    /\ dvc.kernels.specialized

C11_Witness ==
    /\ dvc.alive /\ inits >= 2
    /\ dvc.kernels.installed = <<"avx">>
    /\ ctx.feature_permutation.avx512f.features = << >>
    /\ "AVX512F" \in ctx.host.cpu_features
    /\ "AVX2" \notin ctx.host.cpu_features

(* A storage operation that has just been carried out. *)
DidSet(k) == stoop'.op = "set" /\ stoop'.offs = k

(***************************************************************************)
(* C12: for every buffer of size s, offset k <= s and byte b, set(buf, k,  *)
(* b) returns normally, leaves bytes [k, s) equal to b and bytes [0, k)    *)
(* unchanged, and leaves the descriptor (base, size, alignment, vtable)    *)
(* unchanged.                                                              *)
(***************************************************************************)
C12_SetFillsTail ==
    [][\A k \in 0..sto.size :
          (sto # NoBuffer /\ DidSet(k)) =>
              /\ stoop'.outcome = "ok"
              /\ \A j \in 1..sto.size :
                    mem'[j] = IF j > k THEN stoop'.x ELSE mem[j]
              /\ sto' = sto
              /\ sto'.base % 16 = 0 /\ sto'.set = "mag_cpu_buf_set"]_vars

C12_Witness ==
    /\ stoop.op = "set" /\ stoop.outcome = "ok"
    /\ stoop.offs = 1 /\ sto.size = 3
    /\ mem[1] # stoop.x /\ mem[2] = stoop.x /\ mem[3] = stoop.x

(* The copies, as steps: the operation just carried out and the one before. *)
DidCopyIn == stoop'.op = "cpy_host_device"

DidCopyOut == stoop'.op = "cpy_device_host"

Fits == stoop'.offs + stoop'.n <= sto.size

C13_RoundTrip ==
    (/\ stoop.op = "cpy_host_device" /\ stoop.outcome = "ok"
     /\ DidCopyOut /\ Fits
     /\ stoop'.offs = stoop.offs /\ stoop'.n = stoop.n) =>
        /\ stoop'.outcome = "ok"
        /\ stoop'.dst = stoop.src

C13_CopyInFrame ==
    (DidCopyIn /\ Fits) =>
        /\ stoop'.outcome = "ok"
        /\ \A j \in 1..sto.size :
              mem'[j] = IF j > stoop'.offs /\ j <= stoop'.offs + stoop'.n
                        THEN stoop'.src[j - stoop'.offs] ELSE mem[j]

C13_BoundsAsserted ==
    ((DidCopyIn \/ DidCopyOut) /\ ~Fits) =>
        /\ stoop'.outcome = "assert"
        /\ mem' = mem

(***************************************************************************)
(* C13: for every buffer, offset o and length n with o + n <= size,        *)
(* copy_in(buf, o, src, n) followed by copy_out(buf, o, dst, n) yields     *)
(* dst[0..n) = src[0..n), and copy_in leaves every byte of the buffer      *)
(* outside [o, o+n) unchanged; with o + n > size either operation fails    *)
(* its bounds assertion instead of copying.                                *)
(***************************************************************************)
C13_CopyRoundTrip ==
    [][sto # NoBuffer => (C13_RoundTrip /\ C13_CopyInFrame /\ C13_BoundsAsserted)]_vars

(* The threads whose completion of the pool's current phase is counted: an
   async worker that took the phase and is back in its wait loop, and the
   caller once it is past its own increment. *)
HasSignalled(t) ==
    IF t \in Callers
    THEN pc[t] \notin {"wake_workers", "exec_check", "exec_local", "kernel",
                       "bcast_lock", "bcast"}
    ELSE workers[t].phase = pool.phase /\ Parked(t)

Signalled == {t \in DOMAIN pc : HasSignalled(t)}

(***************************************************************************)
(* C14: with a single submitter completed <= allocated in every reachable  *)
(* state, over any sequence of kickoff/barrier cycles of any widths; from  *)
(* the first kickoff on completed is exactly the number of threads that    *)
(* have signalled the current phase, so no completion of an earlier phase  *)
(* is counted after the reset of the next kickoff and no worker is counted *)
(* twice for one phase.                                                    *)
(***************************************************************************)
C14_CompletedBounded ==
    /\ pool.num_completed <= pool.num_allocated_workers
    /\ (dvc.pool /\ ~pool.interrupt /\ pool.phase >= 1) =>
          pool.num_completed = Cardinality(Signalled)

C14_Witness ==
    /\ dvc.pool /\ pool.phase = 2 /\ ~pool.interrupt
    /\ pool.num_allocated_workers = 3
    /\ pool.num_active_workers = 2
    /\ issued[1].width = 3
    /\ pool.num_completed = 1
    /\ HasSignalled(2) /\ pc[1] = "kernel"

(* A step that changes the local phase of worker i of the same pool. *)
PhaseChanges(i) == workers'[i].phase # workers[i].phase

C15_PhaseBehind ==
    \A i \in DOMAIN workers : workers[i].phase <= pool.phase

C15_PhaseSetInWait ==
    \A i \in DOMAIN workers \cap DOMAIN workers' :
        PhaseChanges(i) =>
            /\ pc[i] = "await_check" /\ mtx = i
            /\ pool' = pool
            /\ workers'[i].phase = pool.phase
            /\ workers'[i].phase > workers[i].phase

(***************************************************************************)
(* C15: in every reachable state every worker's local phase is <= the      *)
(* pool's phase; a local phase changes only in the wait step of its        *)
(* worker, which holds the mutex and sets it to the current pool phase, so *)
(* local phases never decrease and never run ahead of the pool.            *)
(***************************************************************************)
C15_LocalPhaseFollowsPool == []C15_PhaseBehind /\ [][C15_PhaseSetInWait]_vars

C15_Witness ==
    /\ dvc.pool /\ pool.phase = 2
    /\ \E i, j \in AsyncThreads : workers[i].phase = 2 /\ workers[j].phase = 1

(* Destroy is past its interrupt step and the pool is not yet freed. *)
Interrupting == pc[Main] \in {"destroy_broadcast", "destroy_spin", "destroy_join"}

C16_InterruptOnlyInDestroy == pool.interrupt <=> Interrupting

C16_InterruptStep ==
    /\ pool'.interrupt # pool.interrupt =>
          \/ pc[Main] = "destroy_interrupt" /\ mtx = Main /\ pool'.interrupt
          \/ pc[Main] = "destroy_join" /\ pool' = NoPool
    /\ (pool.interrupt /\ pool'.interrupt) =>
          /\ workers' = workers
          /\ kcalls' = kcalls
          /\ pool'.num_completed = pool.num_completed
          /\ \A t \in AsyncThreads :
                /\ pc'[t] \in {"await_lock", "await_check", "await_wait", "exit", "exited"}
                /\ (pc[t] = "await_check" /\ pc'[t] # pc[t]) => pc'[t] = "exit"

(***************************************************************************)
(* C16: the interrupt flag is false from the creation of the pool until    *)
(* destroy, becomes true exactly once, in destroy's step under the mutex,  *)
(* and stays true until the pool is freed; once it is true, a worker that  *)
(* wakes or re-checks the wait predicate leaves its loop, and no step      *)
(* changes a local phase or a payload, runs a kernel or increments         *)
(* completed.                                                              *)
(***************************************************************************)
C16_InterruptOnceByDestroy ==
    []C16_InterruptOnlyInDestroy /\ [][C16_InterruptStep]_vars

C16_Witness ==
    /\ pool.interrupt /\ pool.phase >= 2
    /\ \E t, u \in AsyncThreads : pc[t] = "exited" /\ pc[u] = "await_wait" /\ u \in cv

(* The caller is inside mag_threadpool_kickoff of its last call, or between
   the end of that kickoff and the return of mag_threadpool_barrier. *)
InKickoff == pc[Main] \in {"kick_lock", "kick_active", "kick_payload", "kick_commit"}

InFlight ==
    pc[Main] \in {"wake_workers", "exec_check", "exec_local", "kernel", "bcast_lock",
                  "bcast", "barrier_lock", "barrier_check", "barrier_wait"}

(***************************************************************************)
(* C17: the operators of one caller are strictly ordered.  A thread is in  *)
(* a kernel share only between the kickoff and the barrier return of the   *)
(* call issued last, in the pool phase of that call, and a kernel runs on  *)
(* that call's node and width only; while the kickoff of the next call     *)
(* changes the payloads the barrier of the call before has been passed     *)
(* (completed = N), no thread is in a share and every async worker is in   *)
(* its wait loop.                                                          *)
(***************************************************************************)
C17_OperatorsOrdered ==
    dvc.pool =>
        /\ \A t \in DOMAIN pc :
              InKernelShare(t) =>
                  /\ InFlight
                  /\ pool.phase = ParallelCalls
                  /\ t \in AsyncThreads => workers[t].phase = pool.phase
                  /\ pc[t] = "kernel" =>
                        /\ workers[PayloadIdx(t)].payload.node = LastNode
                        /\ workers[PayloadIdx(t)].payload.thread_num = LastCall.width
        /\ \A r \in BagToSet(kcalls) : r.node = LastNode
        /\ InKickoff =>
              /\ pool.phase = ParallelCalls - 1
              /\ pool.phase >= 1 => pool.num_completed = pool.num_allocated_workers
              /\ \A t \in AsyncThreads : Parked(t)
              /\ \A t \in DOMAIN pc : ~InKernelShare(t)

C17_Witness ==
    /\ dvc.pool /\ Len(issued) = 2 /\ pool.phase = 2
    /\ issued[1].width = 3 /\ issued[2].width = 2
    /\ pc[1] = "kernel" /\ pc[Main] = "kernel"
    /\ workers[2].payload.node = LastNode

(* The async workers that are inactive in the call issued last. *)
Inactive == {i \in AsyncThreads : i >= LastCall.width}

C18_InactiveSignalOnly ==
    (WasParallel /\ (InFlight \/ Returned)) =>
        /\ pool.num_active_workers = LastCall.width
        /\ \A i \in Inactive :
              /\ pc[i] \notin {"exec_local", "kernel"}
              /\ \A r \in BagToSet(kcalls) : r.thread_idx # i
              /\ pc[i] \in {"exec_check", "bcast_lock", "bcast"} =>
                    workers[i].phase = pool.phase /\ ~HasSignalled(i)
        /\ pool.num_completed = Cardinality(Signalled)
        /\ Returned =>
              /\ pool.num_completed = pool.num_allocated_workers
              /\ \A i \in Inactive : HasSignalled(i)

C18_InactiveStep ==
    (WasParallel /\ InFlight) =>
        \A i \in Inactive :
            /\ (pc[i] = "bcast" /\ pc'[i] # "bcast") =>
                  /\ pool'.num_completed = pool.num_completed + 1
                  /\ HasSignalled(i)'
            /\ PhaseChanges(i) =>
                  workers[i].phase = pool.phase - 1 /\ workers'[i].phase = pool.phase

(***************************************************************************)
(* C18: in a call of width k < N every inactive async worker (i >= k)      *)
(* takes the new pool phase once, increments completed once and never      *)
(* enters the kernel; completed counts exactly the threads that have       *)
(* signalled, and the call returns only with completed = N, that is after  *)
(* every inactive worker has signalled too.                                *)
(***************************************************************************)
C18_InactiveWorkersSignal == []C18_InactiveSignalOnly /\ [][C18_InactiveStep]_vars

C18_Witness ==
    /\ Returned /\ WasParallel
    /\ pool.num_allocated_workers = 3
    /\ Len(issued) = 2 /\ issued[1].width = 2 /\ issued[2].width = 2
    /\ workers[2].phase = 2 /\ HasSignalled(2)

(***************************************************************************)
(* C19, as claimed: once the pool is created, every read and every write   *)
(* of the pool phase, the completed counter, the active-worker count, the  *)
(* interrupt flag and a worker's payload is made by a thread that holds    *)
(* the pool's mutex.                                                       *)
(***************************************************************************)
C19_AllUnderMutex ==
    dvc.pool => \A t \in DOMAIN pc : Accessed(t) # {} => mtx = t

(***************************************************************************)
(* C19, amended: once the pool is created, every access to the pool phase, *)
(* the completed counter and the interrupt flag, and every write of the    *)
(* active-worker count and of a payload's node and thread count by the     *)
(* kickoff, is made holding the mutex; the thread executing a share reads  *)
(* its payload and the active-worker count, and clears the payload's node, *)
(* without the mutex.                                                      *)
(***************************************************************************)
C19_MutexGuardsCounters ==
    dvc.pool =>
        \A t \in DOMAIN pc :
            /\ Accessed(t) \cap {"phase", "num_completed", "interrupt"} # {} => mtx = t
            /\ pc[t] \in {"kick_active", "kick_payload", "kick_commit"} => mtx = t
            /\ (Accessed(t) # {} /\ mtx # t) =>
                  /\ InKernelShare(t)
                  /\ Accessed(t) \subseteq {"payload", "num_active_workers"}

C19_Witness ==
    /\ dvc.pool
    /\ \E t, u \in DOMAIN pc :
          /\ pc[t] = "kernel" /\ mtx = u
          /\ pc[u] = "bcast" /\ pool.num_completed >= 1

(* The threads that have called exec_fwd on this device. *)
Submitters == {issued[i].caller : i \in 1..Len(issued)}

(* The bad states of the pool: completed exceeds the allocated count; a
   caller waits in the barrier while no thread is left that could signal;
   the last call has returned without all of its shares executed. *)
Overcount == pool.num_completed > pool.num_allocated_workers

BarrierStuck ==
    /\ mtx = NoThread
    /\ \E c \in Callers : pc[c] = "barrier_wait" /\ c \in cv
    /\ \A t \in DOMAIN pc :
          \/ pc[t] = "idle"
          \/ pc[t] \in {"await_wait", "barrier_wait"} /\ t \in cv

ShortReturn ==
    /\ issued # << >> /\ dvc.pool /\ LastCall.width >= 2
    /\ pc[LastCall.caller] = "idle"
    /\ \E i \in 0..(LastCall.width - 1) : Invoked(LastNode, i, LastCall.width) = 0

(***************************************************************************)
(* C20: the pool is not safe for exec_fwd from two threads at once.  As    *)
(* long as one thread only has submitted to the device no bad state is     *)
(* reached: completed stays <= N, no barrier is left without a thread to   *)
(* signal it, and no call returns with a share missing; with two threads   *)
(* on the parallel path at once completed exceeds N (C20_Witness).         *)
(***************************************************************************)
C20_SingleSubmitterSafe ==
    Cardinality(Submitters) <= 1 =>
        ~Overcount /\ ~BarrierStuck /\ ~ShortReturn

C20_Witness ==
    /\ Cardinality(Submitters) = 2
    /\ issued[1].width >= 2 /\ issued[2].width >= 2
    /\ Overcount

(* The caller's next step is one of the kickoff's writes of the data that
   the shares read without the mutex: pool->num_active_workers, or the node
   and thread_num of a worker's payload. *)
KickoffWrites(c) ==
    CASE pc[c] = "kick_active" -> {"num_active_workers"}
      [] pc[c] = "kick_payload" /\ loc[c].i < pool.num_allocated_workers -> {"payload"}
      [] OTHER -> {}

(* An async worker has taken a phase in mag_worker_await_work and has not
   yet incremented num_completed in mag_worker_exec_and_broadcast. *)
InShare(t) == pc[t] \in {"exec_check", "exec_local", "kernel", "bcast_lock", "bcast"}

(***************************************************************************)
(* C21: with a single submitter no kickoff write conflicts with an access  *)
(* made outside the mutex.  Whenever the kickoff is about to write the     *)
(* active-worker count or a payload's node and thread count, it holds the  *)
(* mutex, no async worker is between taking a phase in its wait step and   *)
(* incrementing completed (every one of them has signalled the phase the   *)
(* pool is in and is in its wait loop), and no other thread's next step    *)
(* reads or writes a payload or the active-worker count or is in a kernel. *)
(***************************************************************************)
C21_NoConflictingAccess ==
    \A c \in Callers :
        KickoffWrites(c) # {} =>
            /\ mtx = c
            /\ \A t \in AsyncThreads :
                  /\ ~InShare(t)
                  /\ Parked(t)
                  /\ pool.phase >= 1 => workers[t].phase = pool.phase
            /\ \A t \in DOMAIN pc \ {c} :
                  /\ Accessed(t) \cap {"payload", "num_active_workers"} = {}
                  /\ pc[t] # "kernel"

(* The kickoff of a later call writes the payload of an async worker that
   ran a kernel share of the call before, while one worker waits on the
   condition variable and another has just signalled and is on its way back
   into the wait loop. *)
C21_Witness ==
    /\ KickoffWrites(Main) = {"payload"}
    /\ loc[Main].i >= 1
    /\ pool.phase >= 1
    /\ pool.num_allocated_workers = 3
    /\ \E t, u \in AsyncThreads :
          /\ pc[t] = "await_wait"
          /\ pc[u] = "await_lock"
          /\ workers[u].phase = pool.phase

====
